---------------------------- MODULE Spec2Model ----------------------------
(***************************************************************************)
(* The user CRUD service of server.js over the User model of User.js.      *)
(*                                                                         *)
(* State: the 'crud' collection of the document store, the identifier      *)
(* generator, the requests suspended at an await between their two         *)
(* data-access calls, and the last response sent.  A handler with one      *)
(* data-access call is one atomic step (its call is its only contact with  *)
(* the store); POST /sign-up and PUT /users/:id are two steps each, split  *)
(* at the await between the uniqueness look-up and the write, so that      *)
(* other requests interleave there.  A response stays in `last` until it   *)
(* is delivered to its client; one response is in transit at a time.       *)
(*                                                                         *)
(* Text is a tuple of one-character strings, so that trimming, lowercasing *)
(* and the e-mail syntax are computed, not assumed.                        *)
(***************************************************************************)
EXTENDS Naturals, Integers, Sequences, FiniteSets, TLC

\* Number of identifiers the generator may hand out in one behaviour.
MaxId == 2

Fields == {"name", "surname", "email", "jobTitle"}

\* The requests that may be suspended between look-up and write at once.
Reqs == {1, 2}

-----------------------------------------------------------------------------
(* Text helpers: String.prototype.trim / toLowerCase as the schema applies  *)
(* them (User.js: trim: true, lowercase: true).                             *)

LowerChar(c) ==
  CASE c = "A" -> "a"
    [] c = "B" -> "b"
    [] c = "K" -> "k"
    [] c = "D" -> "d"
    [] OTHER -> c

Lower(s) == [i \in 1..Len(s) |-> LowerChar(s[i])]

RECURSIVE TrimLeft(_)
TrimLeft(s) ==
  IF s # <<>> /\ Head(s) = " " THEN TrimLeft(Tail(s)) ELSE s

RECURSIVE TrimRight(_)
TrimRight(s) ==
  IF s # <<>> /\ s[Len(s)] = " " THEN TrimRight(SubSeq(s, 1, Len(s) - 1)) ELSE s

Trim(s) == TrimRight(TrimLeft(s))

\* The value of a destructured body field that the body does not carry.
Undefined == <<"undefined">>

\* const { name, surname, email, jobTitle } = req.body
Val(body, f) == IF f \in DOMAIN body THEN body[f] ELSE Undefined

-----------------------------------------------------------------------------
(* Validation layer: express-validator chains of POST /sign-up and PUT.     *)

\* Positions of character c in s.
Positions(s, c) == {i \in 1..Len(s) : s[i] = c}

\* isEmail(): one "@", a non-empty local part, no blank anywhere, and a
\* domain of non-empty labels separated by "." whose last label (the TLD)
\* has at least two characters.
IsEmail(s) ==
  /\ Cardinality(Positions(s, "@")) = 1
  /\ Positions(s, " ") = {}
  /\ LET at == CHOOSE i \in Positions(s, "@") : TRUE
         dots == {i \in Positions(s, ".") : i > at}
     IN  /\ at > 1
         /\ dots # {}
         /\ \A i \in dots : i > at + 1 /\ i < Len(s) /\ (i + 1) \notin dots
         /\ \A i \in dots : (\A j \in dots : j <= i) => Len(s) - i >= 2

\* notEmpty(): a missing field is validated as the empty string.
NotEmpty(body, f) == f \in DOMAIN body /\ Len(body[f]) > 0

\* The chains, in the order the route declares them.
Chains ==
  << [field |-> "name",     rule |-> "notEmpty", msg |-> "Name is required."],
     [field |-> "surname",  rule |-> "notEmpty", msg |-> "Surname is required."],
     [field |-> "email",    rule |-> "isEmail",  msg |-> "Valid email is required."],
     [field |-> "jobTitle", rule |-> "notEmpty", msg |-> "Job title is required."] >>

ChainPasses(c, body) ==
  IF c.rule = "isEmail"
  THEN c.field \in DOMAIN body /\ IsEmail(body[c.field])
  ELSE NotEmpty(body, c.field)

ErrorOf(c) == [param |-> c.field, msg |-> c.msg]

\* Every chain runs; the failures are collected in chain order.
AllErrors(body) ==
  LET failing == SelectSeq(Chains, LAMBDA c : ~ChainPasses(c, body))
  IN  [i \in 1..Len(failing) |-> ErrorOf(failing[i])]

\* Variant: validation that stops at the first failing chain.
FirstErrorOnly(body) ==
  IF AllErrors(body) = <<>> THEN <<>> ELSE <<AllErrors(body)[1]>>

\* validationResult(req).array()
ValidationResult(body) == AllErrors(body)

\* Variant: a handler that ignores the validation result.
NeverRejects(errs) == FALSE

\* if (!errors.isEmpty()) return res.status(400)...
Rejected(errs) == errs # <<>>

-----------------------------------------------------------------------------
(* User schema (User.js).                                                   *)

\* Setters of a trimmed String path; an undefined value is left alone.
SetText(v) == IF v = Undefined THEN v ELSE Trim(v)

\* Variant: an email path without lowercase: true.
SetEmailNoLowercase(v) == IF v = Undefined THEN v ELSE Trim(v)

\* Setters of the email path: lowercase: true, trim: true.
SetEmail(v) == IF v = Undefined THEN v ELSE Trim(Lower(v))

\* required: true on a String path.
Required(v) == v # Undefined /\ Len(v) > 0

\* The four paths after their setters: new User({...}) and the cast of the
\* update document of findByIdAndUpdate.
CastDoc(body) ==
  [name     |-> SetText(Val(body, "name")),
   surname  |-> SetText(Val(body, "surname")),
   email    |-> SetEmail(Val(body, "email")),
   jobTitle |-> SetText(Val(body, "jobTitle"))]

\* Document validation of save() and of runValidators: true.
SchemaValid(doc) ==
  Required(doc.name) /\ Required(doc.surname) /\ Required(doc.email)
    /\ Required(doc.jobTitle)

WithId(doc, id) ==
  [id |-> id, name |-> doc.name, surname |-> doc.surname,
   email |-> doc.email, jobTitle |-> doc.jobTitle]

EditableFields(u) ==
  [name |-> u.name, surname |-> u.surname, email |-> u.email,
   jobTitle |-> u.jobTitle]


-----------------------------------------------------------------------------
(* Data access: the Mongoose model calls that server.js makes, over the     *)
(* collection as a set of documents.                                        *)

\* Route parameter :id.  0 stands for a string that does not cast to an
\* ObjectId; 1..MaxId stand for well-formed identifiers.
IdParams == 0..MaxId

IsObjectId(id) == id >= 1

\* Variant: a query filter compared as sent, without the setters.
RawQueryEmail(v) == v

\* Query filters are cast through the path's setters.
CastQueryEmail(v) == SetEmail(v)

\* User.findOne({ email })
FindByEmail(s, email) == {u \in s : u.email = email}

\* User.findOne({ email, _id: { $ne: id } })
FindByEmailExcludingId(s, email, id) == {u \in s : u.email = email /\ u.id # id}

\* User.findById(id)
FindById(s, id) == {u \in s : u.id = id}

\* Variant: an email path without unique: true.
NoUniqueIndex(s, id, email) == FALSE

\* The unique index on email (unique: true) refuses a write that would give
\* document id an email another document holds; id 0 is an insert.
DuplicateKey(s, id, email) == \E u \in s : u.id # id /\ u.email = email

\* Variant: a generator that hands out the lowest identifier not in use.
ReusedObjectId(s, n) ==
  CHOOSE i \in 1..n : (\A u \in s : u.id # i) /\ (\A j \in 1..(i - 1) : \E u \in s : u.id = j)

\* The identifier a new document gets: never one handed out before.
NewObjectId(s, n) == n

-----------------------------------------------------------------------------
(* Request bodies.                                                          *)

Opt(vals) == {{}} \cup {{v} : v \in vals}

NameOpts == Opt({<<" ">>, <<" ", "A", "l">>})
SurnameOpts == Opt({<<"K">>})
EmailOpts ==
  Opt({<<"a", "@", "x", ".", "i", "o">>, <<"A", "@", "x", ".", "i", "o">>,
       <<"b", "@", "x", ".", "i", "o">>, <<" ", "a", "@", "x", ".", "i", "o">>,
       <<"a", "x">>})
JobOpts == {{<<>>}, {<<"D">>}}

\* A JSON body: a function from the fields it carries to their text.
MkBody(o) == [f \in {g \in Fields : o[g] # {}} |-> CHOOSE v \in o[f] : TRUE]

Bodies ==
  {MkBody([name |-> n, surname |-> s, email |-> e, jobTitle |-> j]) :
     n \in NameOpts, s \in SurnameOpts, e \in EmailOpts, j \in JobOpts}

\* The validation result of each body, computed once.
Validated == [b \in Bodies |-> ValidationResult(b)]

NoBody == MkBody([name |-> {}, surname |-> {}, email |-> {}, jobTitle |-> {}])

-----------------------------------------------------------------------------
(* State.                                                                   *)

VARIABLES
  store,    \* the 'crud' collection: a set of user documents
  nextId,   \* the next identifier the generator hands out
  pc,       \* per request slot: "idle", "save" (sign-up suspended before
            \* save()), "update" (update suspended before findByIdAndUpdate)
  req,      \* per suspended request: its :id and body
  last,     \* the last response sent, with the request it answers
  deleted   \* history: identifiers whose delete was answered 200

vars == <<store, nextId, pc, req, last, deleted>>

NoReq == [id |-> 0, body |-> NoBody]

\* res.status(status).json(...) for request (op, id, body); dbCalls is the
\* number of model calls the handler made before responding.
Response(op, id, body, status, message, error, errors, data, dbCalls) ==
  [op |-> op, id |-> id, body |-> body, status |-> status, message |-> message,
   error |-> error, errors |-> errors, data |-> data, dbCalls |-> dbCalls]

ServerError(op, id, body, error, dbCalls) ==
  Response(op, id, body, 500, "Server error", error, <<>>, {}, dbCalls)

NoResponse == Response("none", 0, NoBody, 0, "", "", <<>>, {}, 0)

\* No response is in transit.
Quiet == last = NoResponse

\* The slot that takes up the next request: the first idle one, once the
\* response in transit is delivered.
FreeSlots ==
  IF Quiet
  THEN {r \in Reqs : pc[r] = "idle" /\ \A q \in Reqs : pc[q] = "idle" => r <= q}
  ELSE {}

Init ==
  /\ store = {}
  /\ nextId = 1
  /\ pc = [r \in Reqs |-> "idle"]
  /\ req = [r \in Reqs |-> NoReq]
  /\ last = NoResponse
  /\ deleted = {}

Suspend(r, to, id, body) ==
  /\ pc' = [pc EXCEPT ![r] = to]
  /\ req' = [req EXCEPT ![r] = [id |-> id, body |-> body]]
  /\ UNCHANGED last

Resume(r) ==
  /\ pc' = [pc EXCEPT ![r] = "idle"]
  /\ req' = [req EXCEPT ![r] = NoReq]

\* GET /
Root ==
  /\ Quiet
  /\ last' = Response("root", 0, NoBody, 200, "Server is running!", "", <<>>, {}, 0)
  /\ UNCHANGED <<store, nextId, pc, req, deleted>>

\* POST /sign-up, up to the await of findOne and the branch after it.
SignUp(r, body) ==
  /\ r \in FreeSlots
  /\ nextId + Cardinality({q \in Reqs : pc[q] = "save"}) <= MaxId
  /\ LET errs == Validated[body] IN
       IF Rejected(errs)
       THEN /\ last' = Response("create", 0, body, 400, "", "", errs, {}, 0)
            /\ UNCHANGED <<pc, req>>
       ELSE IF FindByEmail(store, CastQueryEmail(Val(body, "email"))) # {}
       THEN /\ last' = Response("create", 0, body, 400,
                         "User with this email already exists.", "", <<>>, {}, 1)
            /\ UNCHANGED <<pc, req>>
       ELSE Suspend(r, "save", 0, body)
  /\ UNCHANGED <<store, nextId, deleted>>

\* POST /sign-up from new User(...) to the response.
SignUpSave(r) ==
  /\ pc[r] = "save"
  /\ Quiet
  /\ LET body == req[r].body
         doc == CastDoc(body)
         saved == WithId(doc, NewObjectId(store, nextId))
     IN  IF ~SchemaValid(doc)
         THEN /\ last' = ServerError("create", 0, body, "ValidationError", 2)
              /\ UNCHANGED <<store, nextId>>
         ELSE IF DuplicateKey(store, 0, doc.email)
         THEN /\ last' = ServerError("create", 0, body, "E11000 duplicate key", 2)
              /\ UNCHANGED <<store, nextId>>
         ELSE /\ store' = store \cup {saved}
              /\ nextId' = nextId + 1
              /\ last' = Response("create", 0, body, 201, "", "", <<>>, {saved}, 2)
  /\ Resume(r)
  /\ UNCHANGED deleted

\* GET /users
ListUsers ==
  /\ Quiet
  /\ last' = Response("list", 0, NoBody, 200, "", "", <<>>, store, 1)
  /\ UNCHANGED <<store, nextId, pc, req, deleted>>

\* The response of GET /users/:id over collection s.
GetResponse(s, id) ==
  IF ~IsObjectId(id)
  THEN ServerError("get", id, NoBody, "CastError", 1)
  ELSE IF FindById(s, id) = {}
  THEN Response("get", id, NoBody, 404, "User not found.", "", <<>>, {}, 1)
  ELSE Response("get", id, NoBody, 200, "", "", <<>>, FindById(s, id), 1)

\* GET /users/:id
GetUser(id) ==
  /\ Quiet
  /\ last' = GetResponse(store, id)
  /\ UNCHANGED <<store, nextId, pc, req, deleted>>

\* PUT /users/:id, up to the await of findOne and the branch after it.
UpdateUser(r, id, body) ==
  /\ r \in FreeSlots
  /\ LET errs == Validated[body] IN
       IF Rejected(errs)
       THEN /\ last' = Response("update", id, body, 400, "", "", errs, {}, 0)
            /\ UNCHANGED <<pc, req>>
       ELSE IF ~IsObjectId(id)
       THEN /\ last' = ServerError("update", id, body, "CastError", 1)
            /\ UNCHANGED <<pc, req>>
       ELSE IF FindByEmailExcludingId(store, CastQueryEmail(Val(body, "email")), id) # {}
       THEN /\ last' = Response("update", id, body, 400,
                         "Another user with this email already exists.", "", <<>>, {}, 1)
            /\ UNCHANGED <<pc, req>>
       ELSE Suspend(r, "update", id, body)
  /\ UNCHANGED <<store, nextId, deleted>>

\* PUT /users/:id from findByIdAndUpdate to the response.
UpdateUserWrite(r) ==
  /\ pc[r] = "update"
  /\ Quiet
  /\ LET id == req[r].id
         body == req[r].body
         doc == CastDoc(body)
         updated == WithId(doc, id)
     IN  IF ~SchemaValid(doc)
         THEN /\ last' = ServerError("update", id, body, "ValidationError", 2)
              /\ UNCHANGED store
         ELSE IF FindById(store, id) = {}
         THEN /\ last' = Response("update", id, body, 404, "User not found.", "", <<>>, {}, 2)
              /\ UNCHANGED store
         ELSE IF DuplicateKey(store, id, doc.email)
         THEN /\ last' = ServerError("update", id, body, "E11000 duplicate key", 2)
              /\ UNCHANGED store
         ELSE /\ store' = (store \ FindById(store, id)) \cup {updated}
              /\ last' = Response("update", id, body, 200, "", "", <<>>, {updated}, 2)
  /\ Resume(r)
  /\ UNCHANGED <<nextId, deleted>>

\* DELETE /users/:id
DeleteUser(id) ==
  /\ Quiet
  /\ IF ~IsObjectId(id)
     THEN /\ last' = ServerError("delete", id, NoBody, "CastError", 1)
          /\ UNCHANGED <<store, deleted>>
     ELSE IF FindById(store, id) = {}
     THEN /\ last' = Response("delete", id, NoBody, 404, "User not found.", "", <<>>, {}, 1)
          /\ UNCHANGED <<store, deleted>>
     ELSE /\ store' = store \ FindById(store, id)
          /\ deleted' = deleted \cup {id}
          /\ last' = Response("delete", id, NoBody, 200,
                        "User deleted successfully.", "", <<>>, {}, 1)
  /\ UNCHANGED <<nextId, pc, req>>

\* The response in transit reaches its client.
Deliver ==
  /\ ~Quiet
  /\ last' = NoResponse
  /\ UNCHANGED <<store, nextId, pc, req, deleted>>

Next ==
  \/ Deliver
  \/ Root
  \/ \E r \in FreeSlots, body \in Bodies : SignUp(r, body)
  \/ \E r \in Reqs : SignUpSave(r)
  \/ ListUsers
  \/ \E id \in IdParams : GetUser(id)
  \/ \E r \in FreeSlots, id \in IdParams, body \in Bodies : UpdateUser(r, id, body)
  \/ \E r \in Reqs : UpdateUserWrite(r)
  \/ \E id \in IdParams : DeleteUser(id)

Spec == Init /\ [][Next]_vars

-----------------------------------------------------------------------------
(* Vocabulary of the properties.                                            *)

\* An email lowercased and trimmed.
Normalize(e) == Trim(Lower(e))

\* Some stored record holds email e, normalized.
Held(s, e) == \E u \in s : u.email = Normalize(e)

\* Some stored record other than id holds email e, normalized.
HeldByOther(s, e, id) == \E u \in s : u.id # id /\ u.email = Normalize(e)

\* Field f of the body is missing or invalid: empty text for the three text
\* fields, anything but a syntactically valid address for the email.
FieldInvalid(body, f) ==
  \/ f \notin DOMAIN body
  \/ IF f = "email" THEN ~IsEmail(body[f]) ELSE body[f] = <<>>

\* The body passes field validation.
PassesValidation(body) == \A f \in Fields : ~FieldInvalid(body, f)

\* The text fields of the body stay non-empty once trimmed.
NonBlank(body) == \A f \in Fields \ {"email"} : Trim(body[f]) # <<>>

EntriesFor(errors, f) == Cardinality({i \in 1..Len(errors) : errors[i].param = f})

\* This step sends the response to a request of kind op.
Answers(op) == last = NoResponse /\ last'.op = op

-----------------------------------------------------------------------------
(* Properties.                                                              *)

\* C1: in every reachable state of the store, under any interleaving of
\* concurrent sign-up, update and delete requests, no two persisted records
\* have the same normalized (lowercased, trimmed) email.
C1_UniqueEmail ==
  \A u, v \in store : u.id # v.id => Normalize(u.email) # Normalize(v.email)

\* Two sign-ups with one email both passed the look-up; the store took one
\* and its unique index refused the other.
C1_Witness ==
  /\ last.op = "create"
  /\ last.error = "E11000 duplicate key"
  /\ Held(store, last.body.email)

\* C2: a sign-up that passed the uniqueness look-up and whose insert the
\* unique index then refuses gets the same 400 "already exists" response as
\* one the look-up rejects, not a generic 500.
C2_RaceLoserGetsConflict ==
  (last.op = "create" /\ last.error = "E11000 duplicate key")
    => (last.status = 400 /\ last.message = "User with this email already exists.")

\* C3: a sign-up that passes field validation and whose email, lowercased
\* and trimmed, is the email of a record in the store when the look-up runs
\* is answered 400 and leaves the set of stored records as it was; it never
\* goes on to save().
C3_DuplicateSignUpRejected ==
  [][ /\ \A r \in Reqs :
           (pc[r] = "idle" /\ pc'[r] = "save") => ~Held(store, req'[r].body.email)
      /\ (Answers("create") /\ pc' = pc /\ PassesValidation(last'.body)
            /\ Held(store, last'.body.email))
           => (last'.status = 400 /\ store' = store) ]_vars

\* A sign-up with the stored email in another letter case was answered 400.
C3_Witness ==
  /\ last.op = "create"
  /\ last.status = 400
  /\ last.message = "User with this email already exists."
  /\ last.body.email # Normalize(last.body.email)
  /\ Held(store, last.body.email)

\* C4: for a valid update of an existing record: when its email belongs to a
\* different stored record at the look-up, the response is 400 and no record
\* changes; when its email is the record's own current email, the update
\* succeeds with 200 and the updated record.
C4_UpdateEmailRule ==
  [][ /\ \A r \in Reqs :
           (pc[r] = "idle" /\ pc'[r] = "update" /\ FindById(store, req'[r].id) # {})
             => ~HeldByOther(store, req'[r].body.email, req'[r].id)
      /\ (Answers("update") /\ pc' = pc /\ PassesValidation(last'.body)
            /\ FindById(store, last'.id) # {}
            /\ HeldByOther(store, last'.body.email, last'.id))
           => (last'.status = 400 /\ store' = store)
      /\ \A r \in Reqs :
           (pc[r] = "update" /\ pc'[r] = "idle"
              /\ \E u \in store : u.id = req[r].id /\ u.email = Normalize(req[r].body.email))
             => /\ last'.status = 200
                /\ last'.data = FindById(store', req[r].id)
                /\ \E u \in last'.data :
                     u.email = Normalize(req[r].body.email) ]_vars

\* C5, for well-formed identifiers and bodies whose text stays non-empty
\* once trimmed: a get, a delete, and an update that passes validation, on an
\* identifier that matches no stored record, are each answered 404, also
\* when the update's email is held by some stored record.
C5_MissingIdIs404 ==
  [][ /\ (Answers("get") \/ Answers("delete") \/ Answers("update"))
      /\ IsObjectId(last'.id)
      /\ FindById(store, last'.id) = {}
      /\ (last'.op = "update" => PassesValidation(last'.body) /\ NonBlank(last'.body))
      => last'.status = 404 ]_vars

\* C6: a get whose identifier is malformed is answered 404, like a get of a
\* well-formed identifier that matches no record, and not 500.
C6_MalformedIdIs404 ==
  (last.op = "get" /\ ~IsObjectId(last.id)) => last.status = 404

\* C7: once a delete of an identifier has been answered 200, every later get
\* of that identifier is answered 404, whatever sign-ups, updates and deletes
\* are processed in between.
C7_DeletedStaysGone ==
  (last.op = "get" /\ last.id \in deleted) => last.status = 404

\* A get of a deleted identifier, after a later sign-up stored a record.
C7_Witness ==
  /\ last.op = "get"
  /\ last.id \in deleted
  /\ last.status = 404
  /\ store # {}

\* C8: when a sign-up is answered 201, a get of the returned record's
\* identifier made right after it is answered 200 with the name, surname,
\* email and jobTitle of the record the sign-up returned, and that email is
\* the input email lowercased and trimmed.
C8_CreateThenGet ==
  (last.op = "create" /\ last.status = 201)
    => \E u \in last.data :
         /\ last.data = {u}
         /\ u.email = Normalize(last.body.email)
         /\ GetResponse(store, u.id).status = 200
         /\ \E v \in GetResponse(store, u.id).data :
              /\ GetResponse(store, u.id).data = {v}
              /\ EditableFields(v) = EditableFields(u)

\* A sign-up with an upper-case email and a padded name was answered 201.
C8_Witness ==
  /\ last.op = "create"
  /\ last.status = 201
  /\ last.body.email # Normalize(last.body.email)
  /\ last.body.name # Trim(last.body.name)

\* C9: a sign-up or update in which one or more of the four fields is
\* missing or invalid is answered 400 with exactly one error entry for each
\* such field and none for the others: every field is checked, whatever the
\* fields before it did.
C9_OneErrorPerInvalidField ==
  (last.op \in {"create", "update"} /\ ~PassesValidation(last.body))
    => /\ last.status = 400
       /\ \A f \in Fields :
            EntriesFor(last.errors, f) = IF FieldInvalid(last.body, f) THEN 1 ELSE 0

\* A response that reports several fields at once and leaves one out.
C9_Witness ==
  /\ last.op \in {"create", "update"}
  /\ Len(last.errors) = 3
  /\ \E f \in Fields : ~FieldInvalid(last.body, f)

\* C10: a sign-up or update that fails field validation is answered without
\* any data-access call: the handler made none, nothing was suspended for a
\* later call, and the store is unchanged.
C10_RejectedWithoutDataAccess ==
  [][ ((Answers("create") \/ Answers("update")) /\ ~PassesValidation(last'.body))
        => (last'.dbCalls = 0 /\ store' = store /\ pc' = pc) ]_vars

\* A rejected request answered while the store held records.
C10_Witness ==
  /\ last.op \in {"create", "update"}
  /\ last.errors # <<>>
  /\ last.dbCalls = 0
  /\ store # {}

=============================================================================
